---- MODULE Spec2Model ----
(***************************************************************************)
(* caddy-jsonpath-filter: the capturing middleware (JSONPathFilter.ServeHTTP *)
(* with its responseCapture sink) and the reverse_proxy response modifier   *)
(* (JSONPathFilter.ModifyResponse).                                         *)
(*                                                                         *)
(* Byte strings (bodies, header values, queries) are sequences of          *)
(* one-character strings, so that substring tests, JSON decoding and JSON  *)
(* encoding are computed rather than assumed.                              *)
(*                                                                         *)
(* One behaviour is one request: either ServeHTTP (the origin handler's    *)
(* calls on the capture are separate steps, the rest of ServeHTTP is one   *)
(* step) or one call of ModifyResponse.  Header names are the canonical    *)
(* names that Set, Add, Del and Get use.  A body write that the transport  *)
(* rejects delivers nothing.                                               *)
(***************************************************************************)
EXTENDS Integers, Sequences, FiniteSets, TLC

\* ------------------------------------------------------------------------
\* Bytes and strings
\* ------------------------------------------------------------------------

Lower == <<"a","b","c","d","e","f","g","h","i","j","k","l","m",
           "n","o","p","q","r","s","t","u","v","w","x","y","z">>

Upper == <<"A","B","C","D","E","F","G","H","I","J","K","L","M",
           "N","O","P","Q","R","S","T","U","V","W","X","Y","Z">>

Digits == <<"0","1","2","3","4","5","6","7","8","9">>

Range(f) == { f[i] : i \in DOMAIN f }

IsLetter(c) == c \in Range(Lower)

IsDigit(c) == c \in Range(Digits)

\* Byte order of the characters that can occur in an object key.
CharOrd(c) == CHOOSE i \in 1..Len(Lower) : Lower[i] = c

DigitVal(c) == (CHOOSE i \in 1..Len(Digits) : Digits[i] = c) - 1

RECURSIVE StrLess(_, _)
StrLess(a, b) ==
  IF b = <<>> THEN FALSE
  ELSE IF a = <<>> THEN TRUE
  ELSE IF Head(a) = Head(b) THEN StrLess(Tail(a), Tail(b))
  ELSE CharOrd(Head(a)) < CharOrd(Head(b))

\* strings.Contains(s, sub): sub occurs in s as a contiguous run of bytes,
\* compared byte for byte (so letter case matters).
Contains(s, sub) ==
  \E i \in 0..(Len(s) - Len(sub)) :
     \A j \in 1..Len(sub) : s[i + j] = sub[j]

ToLowerChar(c) ==
  IF c \in Range(Upper) THEN Lower[CHOOSE i \in 1..Len(Upper) : Upper[i] = c] ELSE c

ToLower(s) == [i \in 1..Len(s) |-> ToLowerChar(s[i])]

\* strconv.Itoa for naturals.
RECURSIVE Itoa(_)
Itoa(n) == IF n < 10 THEN <<Digits[n + 1]>> ELSE Itoa(n \div 10) \o <<Digits[(n % 10) + 1]>>

\* ------------------------------------------------------------------------
\* JSON values.  Every value is a record of the same shape:
\*   t    : "obj" | "arr" | "str" | "num" | "bool" | "null" | "nilmap"
\*   n    : the number (t = "num"), 1/0 for true/false (t = "bool")
\*   s    : the characters of a string (t = "str")
\*   kids : members [k, v] sorted by key (t = "obj"), elements (t = "arr")
\* "nilmap" is the nil map[string]interface{} that json.Unmarshal leaves
\* behind when the document is the literal null.
\* ------------------------------------------------------------------------

MkVal(t, n, s, kids) == [t |-> t, n |-> n, s |-> s, kids |-> kids]

VNull == MkVal("null", 0, <<>>, <<>>)

VNilMap == MkVal("nilmap", 0, <<>>, <<>>)

VBool(b) == MkVal("bool", IF b THEN 1 ELSE 0, <<>>, <<>>)

VNum(n) == MkVal("num", n, <<>>, <<>>)

VStr(s) == MkVal("str", 0, s, <<>>)

VObj(kids) == MkVal("obj", 0, <<>>, kids)

VArr(kids) == MkVal("arr", 0, <<>>, kids)

\* Assignment m[k] = v on a map kept as a key-sorted member list: a repeated
\* key keeps its place and takes the later value.
RECURSIVE MapPut(_, _, _)
MapPut(kids, k, v) ==
  IF kids = <<>> THEN << [k |-> k, v |-> v] >>
  ELSE IF Head(kids).k = k THEN << [k |-> k, v |-> v] >> \o Tail(kids)
  ELSE IF StrLess(k, Head(kids).k) THEN << [k |-> k, v |-> v] >> \o kids
  ELSE << Head(kids) >> \o MapPut(Tail(kids), k, v)

HasKey(kids, k) == \E i \in 1..Len(kids) : kids[i].k = k

MapGet(kids, k) == kids[CHOOSE i \in 1..Len(kids) : kids[i].k = k].v

\* ------------------------------------------------------------------------
\* JSON decoding (encoding/json scanner + decoder, for the grammar:
\* objects, arrays, strings of lower-case letters, unsigned integers,
\* true/false/null, white space between tokens).
\* A parse result is [ok, v, i]: i is the index of the first unread byte.
\* ------------------------------------------------------------------------

PFail == [ok |-> FALSE, v |-> VNull, i |-> 0]

POk(v, i) == [ok |-> TRUE, v |-> v, i |-> i]

\* JSON white space: blank, tab, line feed, carriage return.
IsSpace(c) == c \in {" ", "\t", "\n", "\r"}

RECURSIVE SkipWS(_, _)
SkipWS(s, i) == IF i <= Len(s) /\ IsSpace(s[i]) THEN SkipWS(s, i + 1) ELSE i

At(s, i, c) == i <= Len(s) /\ s[i] = c

Literal(s, i, lit) ==
  i + Len(lit) - 1 <= Len(s) /\ \A j \in 1..Len(lit) : s[i + j - 1] = lit[j]

RECURSIVE ParseChars(_, _, _)
ParseChars(s, i, acc) ==
  IF i > Len(s) THEN PFail
  ELSE IF s[i] = "\"" THEN POk(VStr(acc), i + 1)
  ELSE IF IsLetter(s[i]) THEN ParseChars(s, i + 1, Append(acc, s[i]))
  ELSE PFail

ParseString(s, i) == IF At(s, i, "\"") THEN ParseChars(s, i + 1, <<>>) ELSE PFail

RECURSIVE ParseDigits(_, _, _)
ParseDigits(s, i, acc) ==
  IF i <= Len(s) /\ IsDigit(s[i]) THEN ParseDigits(s, i + 1, acc * 10 + DigitVal(s[i]))
  ELSE POk(VNum(acc), i)

\* A number is 0 or a run of digits that does not start with 0.
ParseNumber(s, i) ==
  IF ~(i <= Len(s) /\ IsDigit(s[i])) THEN PFail
  ELSE IF s[i] = "0" THEN
         (IF i + 1 <= Len(s) /\ IsDigit(s[i + 1]) THEN PFail ELSE POk(VNum(0), i + 1))
  ELSE ParseDigits(s, i, 0)

RECURSIVE ParseValue(_, _)
RECURSIVE ParseMembers(_, _, _)
RECURSIVE ParseElements(_, _, _)

\* After "{" and white space: "}" or the members.
ParseObjectAt(s, j) ==
  IF At(s, j, "}") THEN POk(VObj(<<>>), j + 1) ELSE ParseMembers(s, j, <<>>)

\* After "[" and white space: "]" or the elements.
ParseArrayAt(s, j) ==
  IF At(s, j, "]") THEN POk(VArr(<<>>), j + 1) ELSE ParseElements(s, j, <<>>)

\* The value that starts at byte i (white space already skipped).
ParseValueAt(s, i) ==
  IF i > Len(s) THEN PFail
  ELSE IF s[i] = "{" THEN ParseObjectAt(s, SkipWS(s, i + 1))
  ELSE IF s[i] = "[" THEN ParseArrayAt(s, SkipWS(s, i + 1))
  ELSE IF s[i] = "\"" THEN ParseString(s, i)
  ELSE IF IsDigit(s[i]) THEN ParseNumber(s, i)
  ELSE IF Literal(s, i, <<"n","u","l","l">>) THEN POk(VNull, i + 4)
  ELSE IF Literal(s, i, <<"t","r","u","e">>) THEN POk(VBool(TRUE), i + 4)
  ELSE IF Literal(s, i, <<"f","a","l","s","e">>) THEN POk(VBool(FALSE), i + 5)
  ELSE PFail

ParseValue(s, i0) == ParseValueAt(s, SkipWS(s, i0))

\* After the members kids, at byte e: "," and more members, or "}".
MembersNext(s, e, kids) ==
  IF At(s, e, ",") THEN ParseMembers(s, e + 1, kids)
  ELSE IF At(s, e, "}") THEN POk(VObj(kids), e + 1)
  ELSE PFail

MemberValue(s, key, val, acc) ==
  IF ~val.ok THEN PFail
  ELSE MembersNext(s, SkipWS(s, val.i), MapPut(acc, key.v.s, val.v))

MemberColon(s, key, c, acc) ==
  IF ~At(s, c, ":") THEN PFail ELSE MemberValue(s, key, ParseValue(s, c + 1), acc)

MemberKey(s, key, acc) ==
  IF ~key.ok THEN PFail ELSE MemberColon(s, key, SkipWS(s, key.i), acc)

\* "key" : value , ... }
ParseMembers(s, i0, acc) == MemberKey(s, ParseString(s, SkipWS(s, i0)), acc)

\* After the elements kids, at byte e: "," and more elements, or "]".
ElementsNext(s, e, kids) ==
  IF At(s, e, ",") THEN ParseElements(s, e + 1, kids)
  ELSE IF At(s, e, "]") THEN POk(VArr(kids), e + 1)
  ELSE PFail

ElementValue(s, val, acc) ==
  IF ~val.ok THEN PFail
  ELSE ElementsNext(s, SkipWS(s, val.i), Append(acc, [k |-> <<>>, v |-> val.v]))

\* value , ... ]
ParseElements(s, i0, acc) == ElementValue(s, ParseValue(s, i0), acc)

\* One complete document: a value, then nothing but white space.
DocumentEnd(s, r) == IF r.ok /\ SkipWS(s, r.i) > Len(s) THEN r ELSE PFail

ParseDocument(s) == DocumentEnd(s, ParseValue(s, 1))

\* json.Unmarshal(data, &m) with m a nil map[string]interface{}:
\* a syntax error fails; an object fills the map; the literal null leaves the
\* map nil without an error; an array or a scalar is a type error.
UnmarshalInto(r) ==
  IF ~r.ok THEN [err |-> "syntax", v |-> VNilMap]
  ELSE IF r.v.t = "obj" THEN [err |-> "", v |-> r.v]
  ELSE IF r.v.t = "null" THEN [err |-> "", v |-> VNilMap]
  ELSE [err |-> "type", v |-> VNilMap]

Unmarshal(data) == UnmarshalInto(ParseDocument(data))

\* ------------------------------------------------------------------------
\* JSON encoding (json.Marshal): compact, object keys in sorted order.
\* ------------------------------------------------------------------------

RECURSIVE Marshal(_)
RECURSIVE MarshalMembers(_)
RECURSIVE MarshalElements(_)

Marshal(v) ==
  CASE v.t = "obj"    -> <<"{">> \o MarshalMembers(v.kids) \o <<"}">>
    [] v.t = "arr"    -> <<"[">> \o MarshalElements(v.kids) \o <<"]">>
    [] v.t = "str"    -> <<"\"">> \o v.s \o <<"\"">>
    [] v.t = "num"    -> Itoa(v.n)
    [] v.t = "bool"   -> IF v.n = 1 THEN <<"t","r","u","e">> ELSE <<"f","a","l","s","e">>
    [] v.t = "null"   -> <<"n","u","l","l">>
    [] v.t = "nilmap" -> <<"n","u","l","l">>

MarshalMembers(kids) ==
  IF kids = <<>> THEN <<>>
  ELSE <<"\"">> \o Head(kids).k \o <<"\"", ":">> \o Marshal(Head(kids).v)
       \o (IF Tail(kids) = <<>> THEN <<>> ELSE <<",">> \o MarshalMembers(Tail(kids)))

MarshalElements(kids) ==
  IF kids = <<>> THEN <<>>
  ELSE Marshal(Head(kids).v)
       \o (IF Tail(kids) = <<>> THEN <<>> ELSE <<",">> \o MarshalElements(Tail(kids)))

\* json.NewEncoder(w).Encode(v) writes the encoding followed by a newline.
EncoderEncode(v) == Marshal(v) \o <<"\n">>

\* ------------------------------------------------------------------------
\* http.Header: a map from (canonical) header name to its list of values.
\* ------------------------------------------------------------------------

EmptyHeader == [x \in {} |-> <<>>]

\* h[k], nil when the key is absent.
HeaderValues(h, k) == IF k \in DOMAIN h THEN h[k] ELSE <<>>

HeaderGet(h, k) == IF k \in DOMAIN h /\ h[k] # <<>> THEN h[k][1] ELSE <<>>

\* h[k] = vs
HeaderAssign(h, k, vs) == [x \in (DOMAIN h) \cup {k} |-> IF x = k THEN vs ELSE h[x]]

HeaderSet(h, k, v) == HeaderAssign(h, k, <<v>>)

HeaderAdd(h, k, v) == HeaderAssign(h, k, Append(HeaderValues(h, k), v))

HeaderDel(h, k) == [x \in (DOMAIN h) \ {k} |-> h[x]]

AppJSON == <<"a","p","p","l","i","c","a","t","i","o","n","/","j","s","o","n">>

AppJSONCharset == AppJSON \o <<";"," ","c","h","a","r","s","e","t","=","u","t","f","-","8">>

AppJSONMixedCase == <<"A","p","p","l","i","c","a","t","i","o","n","/","J","S","O","N">>

TextPlain == <<"t","e","x","t","/","p","l","a","i","n">>

\* ------------------------------------------------------------------------
\* The query evaluator, jsonpath.Get(query, data), for dotted paths:
\*   $            the document itself
\*   $.k1.k2...   the member k2 of the member k1 ...
\* Any other text is rejected as malformed; a key that is missing, or that is
\* selected from something that is not an object, is an error.
\* ------------------------------------------------------------------------

RECURSIVE PathKeys(_, _, _, _)
\* [ok, keys]: q from index i on is a run of ".letters" segments.
PathKeys(q, i, cur, keys) ==
  IF i > Len(q) THEN
    (IF cur = <<>> THEN [ok |-> FALSE, keys |-> <<>>] ELSE [ok |-> TRUE, keys |-> Append(keys, cur)])
  ELSE IF q[i] = "." THEN
    (IF cur = <<>> THEN [ok |-> FALSE, keys |-> <<>>] ELSE PathKeys(q, i + 1, <<>>, Append(keys, cur)))
  ELSE IF IsLetter(q[i]) THEN PathKeys(q, i + 1, Append(cur, q[i]), keys)
  ELSE [ok |-> FALSE, keys |-> <<>>]

ParsePath(q) ==
  IF q = <<>> \/ q[1] # "$" THEN [ok |-> FALSE, keys |-> <<>>]
  ELSE IF Len(q) = 1 THEN [ok |-> TRUE, keys |-> <<>>]
  ELSE IF q[2] # "." THEN [ok |-> FALSE, keys |-> <<>>]
  ELSE PathKeys(q, 3, <<>>, <<>>)

RECURSIVE Select(_, _)
Select(v, keys) ==
  IF keys = <<>> THEN [err |-> "", v |-> v]
  ELSE IF v.t = "obj" /\ HasKey(v.kids, Head(keys)) THEN Select(MapGet(v.kids, Head(keys)), Tail(keys))
  ELSE [err |-> "unknown key", v |-> VNull]

Evaluate(p, data) ==
  IF ~p.ok THEN [err |-> "parse", v |-> VNull] ELSE Select(data, p.keys)

JsonpathGet(query, data) == Evaluate(ParsePath(query), data)

\* The type assertion result.(map[string]interface{}).
IsMap(v) == v.t \in {"obj", "nilmap"}

\* r: what jsonpath.Get returned.
AssertMap(r) ==
  IF r.err # "" THEN [err |-> "JSONPath query failed", v |-> VNilMap]
  ELSE IF ~IsMap(r.v) THEN [err |-> "JSONPath query did not return an object", v |-> VNilMap]
  ELSE [err |-> "", v |-> r.v]

applyJSONPathFilter(data, query) == AssertMap(JsonpathGet(query, data))

\* ------------------------------------------------------------------------
\* responseCapture: the sink handed to the origin handler.
\* ------------------------------------------------------------------------

StatusOK == 200

\* The value of rc before ServeHTTP has constructed the capture.
NoCapture == [header |-> EmptyHeader, status |-> 0, body |-> <<>>, wroteHeader |-> FALSE]

newResponseCapture ==
  [header |-> EmptyHeader, status |-> StatusOK, body |-> <<>>, wroteHeader |-> FALSE]

\* rc.Header() hands out the live map: a mutation through it is a mutation of
\* rc.header, whatever has been written so far.
HeaderMutate(c, op) ==
  [c EXCEPT !.header =
     CASE op.op = "Set" -> HeaderSet(@, op.k, op.v)
       [] op.op = "Add" -> HeaderAdd(@, op.k, op.v)
       [] op.op = "Del" -> HeaderDel(@, op.k)]

\* WriteHeader without the wroteHeader guard: a later call overwrites the status.
WriteHeaderOverwrites(c, statusCode) ==
  [c EXCEPT !.status = statusCode, !.wroteHeader = TRUE]

WriteHeader(c, statusCode) ==
  IF c.wroteHeader THEN c
  ELSE [c EXCEPT !.status = statusCode, !.wroteHeader = TRUE]

\* rc.body.Write(b): append, report len(b).
BufferWrite(c, b) == [rc |-> [c EXCEPT !.body = @ \o b], n |-> Len(b)]

\* Write that resets the buffer instead of appending to it.
WriteResets(c, b) ==
  [rc |-> [(IF ~c.wroteHeader THEN WriteHeader(c, StatusOK) ELSE c) EXCEPT !.body = b],
   n |-> Len(b)]

\* Returns the capture after the call and the byte count the call reports.
Write(c, b) == BufferWrite(IF ~c.wroteHeader THEN WriteHeader(c, StatusOK) ELSE c, b)

\* ------------------------------------------------------------------------
\* The real sink w (http.ResponseWriter): its header map can be changed at any
\* time, but what is sent is the map as it stands at the first WriteHeader.
\* log records every call made on it, in call order.
\* ------------------------------------------------------------------------

Server == <<"C","a","d","d","y">>

NewSink ==
  [header |-> HeaderSet(EmptyHeader, "Server", Server), wroteHeader |-> FALSE, status |-> 0,
   sentHeader |-> EmptyHeader, body |-> <<>>, log |-> <<>>]

LogEntry(op, k, n, b) == [op |-> op, k |-> k, n |-> n, b |-> b]

SinkHeaderAssign(s, k, vs) ==
  [s EXCEPT !.header = HeaderAssign(@, k, vs), !.log = Append(@, LogEntry("Header", k, 0, <<>>))]

SinkHeaderSet(s, k, v) == SinkHeaderAssign(s, k, <<v>>)

SinkHeaderDel(s, k) ==
  [s EXCEPT !.header = HeaderDel(@, k), !.log = Append(@, LogEntry("Header", k, 0, <<>>))]

\* The first status commits the status and the header map as it stands.
SinkCommit(s, code) ==
  IF s.wroteHeader THEN s
  ELSE [s EXCEPT !.wroteHeader = TRUE, !.status = code, !.sentHeader = s.header]

SinkWriteHeader(s, code) ==
  [SinkCommit(s, code) EXCEPT !.log = Append(@, LogEntry("WriteHeader", "", code, <<>>))]

\* fails: the transport rejects the write (the client has gone away).
SinkWrite(s, b, fails) ==
  IF fails
  THEN [w |-> [SinkCommit(s, StatusOK) EXCEPT !.log = Append(@, LogEntry("Write", "", 0, b))],
        err |-> "write failed"]
  ELSE [w |-> [SinkCommit(s, StatusOK) EXCEPT !.log = Append(@, LogEntry("Write", "", 0, b)),
                                              !.body = @ \o b],
        err |-> ""]

\* Header copy through h.Set(k, v[0]): only the first value of each header.
RECURSIVE CopyHeadersFirstValue(_, _, _)
CopyHeadersFirstValue(s, h, keys) ==
  IF keys = {} THEN s
  ELSE LET k == CHOOSE x \in keys : TRUE IN
       CopyHeadersFirstValue(SinkHeaderAssign(s, k, SubSeq(h[k], 1, 1)), h, keys \ {k})

\* for k, v := range capture.Header() { h[k] = v }
RECURSIVE CopyHeaders(_, _, _)
CopyHeaders(s, h, keys) ==
  IF keys = {} THEN s
  ELSE LET k == CHOOSE x \in keys : TRUE IN
       CopyHeaders(SinkHeaderAssign(s, k, h[k]), h, keys \ {k})

\* ------------------------------------------------------------------------
\* JSONPathFilter.ServeHTTP, from the return of next.ServeHTTP on.
\*   c         the capture as the origin handler left it
\*   s         the real sink
\*   e         the error next.ServeHTTP returned ("" for nil)
\*   q         r.Header.Get(jpf.HeaderName)
\*   fails     whether the transport rejects the body write
\* Result: the sink afterwards, the returned error, and the branch taken.
\* ------------------------------------------------------------------------

IsJSONContentType(contentType) == Contains(contentType, AppJSON)

Outcome(s, ret, path) == [w |-> s, ret |-> ret, path |-> path]

\* return <the error of the body write>
WriteOutcome(wr, path) == Outcome(wr.w, wr.err, path)

\* The filtered replay without h.Del("Content-Length").
ReplayFilteredKeepsLength(c, s, f, fails) ==
  IF f.err # "" THEN Outcome(s, f.err, "json")
  ELSE LET s1 == CopyHeaders(s, c.header, DOMAIN c.header)
           s2 == SinkHeaderSet(s1, "Content-Type", AppJSON)
           s4 == SinkWriteHeader(s2, c.status)
       IN WriteOutcome(SinkWrite(s4, EncoderEncode(f.v), fails), "json")

\* f: the outcome of the filter step (the document itself without a query).
ReplayFiltered(c, s, f, fails) ==
  IF f.err # "" THEN Outcome(s, f.err, "json")
  ELSE LET s1 == CopyHeaders(s, c.header, DOMAIN c.header)
           s2 == SinkHeaderSet(s1, "Content-Type", AppJSON)
           s3 == SinkHeaderDel(s2, "Content-Length")
           s4 == SinkWriteHeader(s3, c.status)
       IN WriteOutcome(SinkWrite(s4, EncoderEncode(f.v), fails), "json")

\* u: the outcome of json.Unmarshal.
FilterDecoded(c, s, u, q, fails) ==
  IF u.err # "" THEN Outcome(s, "failed to unmarshal JSON", "json")
  ELSE ReplayFiltered(c, s,
                      IF q # <<>> THEN applyJSONPathFilter(u.v, q) ELSE [err |-> "", v |-> u.v],
                      fails)

ServeHTTPFiltered(c, s, q, fails) == FilterDecoded(c, s, Unmarshal(c.body), q, fails)

\* The passthrough branch with the status written before the headers are copied.
ServeHTTPPassthroughStatusFirst(c, s, fails) ==
  LET s1 == SinkWriteHeader(s, c.status)
      s2 == CopyHeaders(s1, c.header, DOMAIN c.header)
  IN WriteOutcome(SinkWrite(s2, c.body, fails), "passthrough")

ServeHTTPPassthrough(c, s, fails) ==
  LET s1 == CopyHeaders(s, c.header, DOMAIN c.header)
      s2 == SinkWriteHeader(s1, c.status)
  IN WriteOutcome(SinkWrite(s2, c.body, fails), "passthrough")

\* ServeHTTP that replays the capture before looking at the origin error.
ServeHTTPReplaysOnError(c, s, e, q, fails) ==
  IF e # ""
  THEN [(IF IsJSONContentType(HeaderGet(c.header, "Content-Type"))
         THEN ServeHTTPFiltered(c, s, q, fails)
         ELSE ServeHTTPPassthrough(c, s, fails)) EXCEPT !.ret = e, !.path = "origin error"]
  ELSE IF IsJSONContentType(HeaderGet(c.header, "Content-Type"))
       THEN ServeHTTPFiltered(c, s, q, fails)
       ELSE ServeHTTPPassthrough(c, s, fails)

ServeHTTP(c, s, e, q, fails) ==
  IF e # "" THEN Outcome(s, e, "origin error")
  ELSE IF IsJSONContentType(HeaderGet(c.header, "Content-Type"))
       THEN ServeHTTPFiltered(c, s, q, fails)
       ELSE ServeHTTPPassthrough(c, s, fails)

\* ------------------------------------------------------------------------
\* JSONPathFilter.ModifyResponse on a response r = [header, body, status]
\* (body: the bytes still unread).  hasRequest: res.Request != nil;
\* q: the filter header of that request; readFails: io.ReadAll fails.
\* ------------------------------------------------------------------------

ModOutcome(r, ret, path) == [res |-> r, ret |-> ret, path |-> path]

\* f: the outcome of the filter step (the document itself without a query).
ModifyMarshal(r, f) ==
  IF f.err # "" THEN ModOutcome([r EXCEPT !.body = <<>>], "JSONPath filter error", "json")
  ELSE ModOutcome(
         [r EXCEPT !.header = HeaderDel(HeaderSet(@, "Content-Type", AppJSON), "Content-Length"),
                   !.body = Marshal(f.v)],
         "", "json")

\* u: the outcome of json.Unmarshal; the body has been read to its end.
ModifyDecoded(r, u, jsonPathQuery) ==
  IF u.err # "" THEN ModOutcome([r EXCEPT !.body = <<>>], "failed to unmarshal JSON", "json")
  ELSE ModifyMarshal(r, IF jsonPathQuery # <<>> THEN applyJSONPathFilter(u.v, jsonPathQuery)
                        ELSE [err |-> "", v |-> u.v])

ModifyResponse(r, hasRequest, q, readFails) ==
  IF ~IsJSONContentType(HeaderGet(r.header, "Content-Type")) THEN ModOutcome(r, "", "passthrough")
  ELSE IF readFails THEN ModOutcome(r, "failed to read response body", "json")
  ELSE ModifyDecoded(r, Unmarshal(r.body), IF hasRequest THEN q ELSE <<>>)

\* ------------------------------------------------------------------------
\* Inputs
\* ------------------------------------------------------------------------

\* Most Write calls the origin handler makes on the capture.
MaxWrites == 2

\* Most values the origin handler adds under one header name.
MaxValues == 2

\* {"b":{"c":2},_      (_ is a blank)
ChunkA == <<"{","\"","b","\"",":","{","\"","c","\"",":","2","}",","," ">>

\* "a":1}
ChunkB == <<"\"","a","\"",":","1","}">>

\* [1]
ChunkArr == <<"[","1","]">>

\* null
ChunkNull == <<"n","u","l","l">>

\* {"b":{}, "a":[1]}
DocMixed == <<"{","\"","b","\"",":","{","}",","," ","\"","a","\"",":","[","1","]","}">>

\* no
DocBad == <<"n","o">>

\* 7
DocScalar == <<"7">>

\* ChunkA then ChunkB is the document {"b":{"c":2}, "a":1}; either alone is
\* not a JSON document.
Chunks == {ChunkA, ChunkB, ChunkArr, ChunkNull}

StatusCodes == {201, 404}

ContentTypes == {AppJSON, AppJSONCharset, AppJSONMixedCase, TextPlain}

HOp(op, k, v) == [op |-> op, k |-> k, v |-> v]

HeaderOps ==
  { HOp("Set", "Content-Type", ct) : ct \in ContentTypes }
  \cup { HOp("Add", "Set-Cookie", <<c>>) : c \in {"a", "b"} }
  \cup { HOp("Set", "Content-Length", <<"2","0">>), HOp("Del", "Set-Cookie", <<>>) }

\* "", $, $.b, $.a, $.x, $[
Queries == { <<>>, <<"$">>, <<"$",".","b">>, <<"$",".","a">>, <<"$",".","x">>, <<"$","[">> }

OriginErrors == {"", "origin failed"}

\* Upstream responses handed to ModifyResponse.
UpstreamHeaders ==
  LET base == HeaderAdd(HeaderAdd(EmptyHeader, "Set-Cookie", <<"a">>), "Set-Cookie", <<"b">>) IN
  { base, HeaderSet(base, "Content-Length", <<"2","0">>) }
  \cup { HeaderSet(HeaderSet(base, "Content-Length", <<"2","0">>), "Content-Type", ct) : ct \in ContentTypes }

UpstreamBodies == { ChunkA \o ChunkB, DocMixed, DocBad, ChunkArr, ChunkNull, DocScalar }

NoResponse == [header |-> EmptyHeader, body |-> <<>>, status |-> 0]

\* ------------------------------------------------------------------------
\* State
\* ------------------------------------------------------------------------

VARIABLES
  pc,            \* "idle" | "origin" (next.ServeHTTP running) | "done" | "modified"
  rc,            \* the responseCapture
  w,             \* the real sink
  query,         \* the filter query read from the request
  originErr,     \* the error next.ServeHTTP returned ("" for nil)
  ret,           \* the error returned by ServeHTTP / ModifyResponse ("" for nil)
  path,          \* branch taken: "passthrough" | "json" | "origin error"
  resIn,         \* the response as handed to ModifyResponse
  res,           \* the response as ModifyResponse left it
  writeArgs,     \* history: arguments of the Write calls on the capture, in order
  writeRets,     \* history: byte counts those calls reported
  firstCall,     \* history: the first WriteHeader/Write call on the capture
  lateStatusCall \* history: WriteHeader was called on the capture after that

vars == <<pc, rc, w, query, originErr, ret, path, resIn, res, writeArgs, writeRets, firstCall,
          lateStatusCall>>

history == <<writeArgs, writeRets, firstCall, lateStatusCall>>

Init ==
  /\ pc = "idle"
  /\ rc = NoCapture
  /\ w = NewSink
  /\ query = <<>>
  /\ originErr = ""
  /\ ret = ""
  /\ path = ""
  /\ resIn = NoResponse
  /\ res = NoResponse
  /\ writeArgs = <<>>
  /\ writeRets = <<>>
  /\ firstCall = [op |-> "none", code |-> 0]
  /\ lateStatusCall = FALSE

\* ServeHTTP is entered: the capture is built and next.ServeHTTP is called.
ServeHTTPEnter ==
  /\ pc = "idle"
  /\ pc' = "origin"
  /\ rc' = newResponseCapture
  /\ UNCHANGED <<w, query, originErr, ret, path, resIn, res, history>>

\* The origin handler mutates the map returned by capture.Header().
OriginHeader ==
  /\ pc = "origin"
  /\ \E op \in HeaderOps :
       /\ (op.op # "Add" \/ Len(HeaderValues(rc.header, op.k)) < MaxValues)
       /\ rc' = HeaderMutate(rc, op)
  /\ UNCHANGED <<pc, w, query, originErr, ret, path, resIn, res, history>>

\* The origin handler calls capture.WriteHeader(code).
OriginWriteHeader ==
  /\ pc = "origin"
  /\ \E code \in StatusCodes :
       /\ rc' = WriteHeader(rc, code)
       /\ firstCall' = IF firstCall.op = "none" THEN [op |-> "WriteHeader", code |-> code]
                       ELSE firstCall
  /\ lateStatusCall' = (lateStatusCall \/ firstCall.op # "none")
  /\ UNCHANGED <<pc, w, query, originErr, ret, path, resIn, res, writeArgs, writeRets>>

\* wr: what capture.Write returned.
Written(wr) ==
  /\ rc' = wr.rc
  /\ writeRets' = Append(writeRets, wr.n)

\* The origin handler calls capture.Write(b).
OriginWrite ==
  /\ pc = "origin"
  /\ Len(writeArgs) < MaxWrites
  /\ \E b \in Chunks :
       /\ Written(Write(rc, b))
       /\ writeArgs' = Append(writeArgs, b)
  /\ firstCall' = IF firstCall.op = "none" THEN [op |-> "Write", code |-> 0] ELSE firstCall
  /\ UNCHANGED <<pc, w, query, originErr, ret, path, resIn, res, lateStatusCall>>

\* o: what ServeHTTP did to the real sink and what it returned.
Returned(o) ==
  /\ w' = o.w
  /\ ret' = o.ret
  /\ path' = o.path

\* next.ServeHTTP returns and ServeHTTP runs to its own return.  The filter
\* header of the request is read only here, after the origin handler has run.
ServeHTTPReturn ==
  /\ pc = "origin"
  /\ \E e \in OriginErrors, q \in Queries, fails \in BOOLEAN :
       /\ Returned(ServeHTTP(rc, w, e, q, fails))
       /\ originErr' = e
       /\ query' = IF e = "" THEN q ELSE <<>>
  /\ pc' = "done"
  /\ UNCHANGED <<rc, resIn, res, history>>

\* o: the response as ModifyResponse left it and what it returned.
ModifiedTo(o) ==
  /\ res' = o.res
  /\ ret' = o.ret
  /\ path' = o.path

\* The reverse proxy hands an upstream response to ModifyResponse.
ModifyResponseCall ==
  /\ pc = "idle"
  /\ \E h \in UpstreamHeaders, b \in UpstreamBodies, st \in StatusCodes,
        hasRequest \in BOOLEAN, q \in Queries, readFails \in BOOLEAN :
       /\ resIn' = [header |-> h, body |-> b, status |-> st]
       /\ ModifiedTo(ModifyResponse([header |-> h, body |-> b, status |-> st],
                                    hasRequest, q, readFails))
       /\ query' = IF hasRequest THEN q ELSE <<>>
  /\ pc' = "modified"
  /\ UNCHANGED <<rc, w, originErr, history>>

Next ==
  \/ ServeHTTPEnter
  \/ OriginHeader
  \/ OriginWriteHeader
  \/ OriginWrite
  \/ ServeHTTPReturn
  \/ ModifyResponseCall

Spec == Init /\ [][Next]_vars

\* ------------------------------------------------------------------------
\* Vocabulary of the properties
\* ------------------------------------------------------------------------

\* ServeHTTP has returned and the origin handler had not failed.
Served == pc = "done" /\ originErr = ""

Modified == pc = "modified"

CapturedContentType == HeaderGet(rc.header, "Content-Type")

UpstreamContentType == HeaderGet(resIn.header, "Content-Type")

\* The value contains the bytes application/json.
DeclaresJSON(contentType) == Contains(contentType, AppJSON)

\* The value contains application/json in some letter case.
DeclaresJSONAnyCase(contentType) == Contains(ToLower(contentType), AppJSON)

\* The arguments of the Write calls made on the real sink, in call order.
SinkWrites == LET ws == SelectSeq(w.log, LAMBDA e : e.op = "Write")
              IN [i \in 1..Len(ws) |-> ws[i].b]

RECURSIVE Flatten(_)
Flatten(ss) == IF ss = <<>> THEN <<>> ELSE Head(ss) \o Flatten(Tail(ss))

WriteErrors == {"", "write failed"}

\* What the transport sends under Content-Length, if anything, is the length
\* of the body b.
ContentLengthFits(h, b) ==
  "Content-Length" \notin DOMAIN h \/ h["Content-Length"] = << Itoa(Len(b)) >>

\* Every header of from other than Content-Type and Content-Length is in to,
\* with all its values.
OthersCopied(from, to) ==
  \A k \in (DOMAIN from) \ {"Content-Type", "Content-Length"} :
     k \in DOMAIN to /\ to[k] = from[k]

\* The body is a JSON object and the query q selects an object in it.
MatchesObject(body, q) ==
  /\ q # <<>>
  /\ ParseDocument(body).ok
  /\ ParseDocument(body).v.t = "obj"
  /\ JsonpathGet(q, ParseDocument(body).v).err = ""
  /\ JsonpathGet(q, ParseDocument(body).v).v.t = "obj"

Matched(body, q) == JsonpathGet(q, ParseDocument(body).v).v

\* The body is a JSON document and the non-empty query q is rejected by the
\* evaluator or selects something that is not a JSON object.
QueryFails(body, q) ==
  /\ q # <<>>
  /\ ParseDocument(body).ok
  /\ \/ JsonpathGet(q, ParseDocument(body).v).err # ""
     \/ JsonpathGet(q, ParseDocument(body).v).v.t # "obj"

\* The status the capture must hold, from the first call made on it.
ExpectedStatus == IF firstCall.op = "WriteHeader" THEN firstCall.code ELSE StatusOK

\* {"c":2}
SubObjectC == <<"{","\"","c","\"",":","2","}">>

\* ------------------------------------------------------------------------
\* C1 - passthrough identity.  When the captured Content-Type does not
\* declare JSON, ServeHTTP (whatever the filter query of the request) sends the
\* captured status, every captured header with all of its values and nothing
\* else new, hands the captured body bytes to the sink in one Write, and
\* returns no decode, query or shape error; ModifyResponse returns nil and
\* leaves the response as it was.
\* ------------------------------------------------------------------------
C1_PassthroughIdentity ==
  /\ (Served /\ ~DeclaresJSON(CapturedContentType)) =>
       /\ path = "passthrough"
       /\ ret \in WriteErrors
       /\ w.status = rc.status
       /\ \A k \in DOMAIN rc.header :
            k \in DOMAIN w.sentHeader /\ w.sentHeader[k] = rc.header[k]
       /\ \A k \in (DOMAIN w.sentHeader) \ (DOMAIN rc.header) :
            k \in DOMAIN NewSink.header /\ w.sentHeader[k] = NewSink.header[k]
       /\ SinkWrites = << rc.body >>
       /\ (ret = "" => w.body = rc.body)
  /\ (Modified /\ ~DeclaresJSON(UpstreamContentType)) =>
       /\ ret = ""
       /\ res = resIn

\* A text/plain response with a repeated Set-Cookie, a body and a non-default
\* status has been passed through for a request that carried a filter query.
C1_Witness ==
  /\ Served
  /\ CapturedContentType = TextPlain
  /\ query = <<"$", ".", "b">>
  /\ HeaderValues(rc.header, "Set-Cookie") = << <<"a">>, <<"b">> >>
  /\ rc.body = ChunkA \o ChunkB
  /\ rc.status = 404
  /\ ret = ""
  /\ w.body = rc.body

C3_ErrorsAbort ==
  (Served /\ DeclaresJSON(CapturedContentType)
     /\ (~ParseDocument(rc.body).ok \/ QueryFails(rc.body, query))) =>
    /\ ret # ""
    /\ w = NewSink

\* ------------------------------------------------------------------------
\* C4 - no query.  For a response that declares JSON, whose body is any JSON
\* document (object, array or scalar), and no filter query: the handler
\* succeeds (nothing but the transport can make it fail) and the body it wrote
\* decodes to the same value as the captured body; likewise ModifyResponse.
\* ------------------------------------------------------------------------
C4_NoQueryDecodeEqual ==
  /\ (Served /\ DeclaresJSON(CapturedContentType) /\ ParseDocument(rc.body).ok /\ query = <<>>) =>
       /\ ret \in WriteErrors
       /\ Len(SinkWrites) = 1
       /\ ParseDocument(SinkWrites[1]).ok
       /\ ParseDocument(SinkWrites[1]).v = ParseDocument(rc.body).v
  /\ (Modified /\ DeclaresJSON(UpstreamContentType) /\ ParseDocument(resIn.body).ok
        /\ query = <<>> /\ ret # "failed to read response body") =>
       /\ ret = ""
       /\ ParseDocument(res.body).ok
       /\ ParseDocument(res.body).v = ParseDocument(resIn.body).v

\* ------------------------------------------------------------------------
\* C5 - the decision.  The JSON branch is taken exactly when the captured
\* Content-Type contains application/json in any letter case, with or without
\* parameters after it; every other value is passed through.
\* ------------------------------------------------------------------------
C5_DecisionAnyCase ==
  /\ Served => (path = "json" <=> DeclaresJSONAnyCase(CapturedContentType))
  /\ Served => (path = "passthrough" <=> ~DeclaresJSONAnyCase(CapturedContentType))
  /\ Modified => (path = "json" <=> DeclaresJSONAnyCase(UpstreamContentType))

\* ------------------------------------------------------------------------
\* C6 - status commit.  At every moment of the capture, the captured status
\* is the code of the first WriteHeader call if that call came before every
\* Write, and 200 otherwise (also when nothing was called); wroteHeader is set
\* exactly when a first WriteHeader or Write has happened; and in every step
\* taken once wroteHeader is set, the status stays what it is and wroteHeader
\* stays set.
\* ------------------------------------------------------------------------
C6_StatusCommit ==
  /\ [](pc \in {"origin", "done"} =>
          /\ rc.status = ExpectedStatus
          /\ (rc.wroteHeader <=> firstCall.op # "none"))
  /\ [][rc.wroteHeader => (rc'.wroteHeader /\ rc'.status = rc.status)]_vars

\* WriteHeader(201) came first, a Write followed, and a later WriteHeader call
\* was made: the status is still 201.
C6_Witness ==
  /\ pc = "origin"
  /\ firstCall = [op |-> "WriteHeader", code |-> 201]
  /\ Len(writeArgs) > 0
  /\ lateStatusCall
  /\ rc.status = 201

\* ------------------------------------------------------------------------
\* C7 - header freeze.  Once the first Write or WriteHeader call has been made
\* on the capture, no step of the origin handler changes the captured header
\* set (the set that is later copied to the real sink).
\* ------------------------------------------------------------------------
C7_HeadersFrozenAfterCommit ==
  [][(pc = "origin" /\ rc.wroteHeader) => rc'.header = rc.header]_vars

\* ------------------------------------------------------------------------
\* C8 - body accumulation.  The captured body is the concatenation of the
\* arguments of all Write calls in call order, and each Write reported the
\* length of its argument.
\* ------------------------------------------------------------------------
C8_BodyIsConcatenation ==
  pc \in {"origin", "done"} =>
    /\ rc.body = Flatten(writeArgs)
    /\ Len(writeRets) = Len(writeArgs)
    /\ \A i \in 1..Len(writeArgs) : writeRets[i] = Len(writeArgs[i])

\* Two different chunks were written and a WriteHeader call came after the first.
C8_Witness ==
  /\ pc = "origin"
  /\ writeArgs = << ChunkArr, ChunkA >>
  /\ lateStatusCall
  /\ rc.body = ChunkArr \o ChunkA

\* ------------------------------------------------------------------------
\* C9 - capture isolation.  While the origin handler runs, the real sink is
\* exactly as it was before the request, whatever has been called on the
\* capture; and if the origin handler returns an error, ServeHTTP returns that
\* error and the real sink is still untouched.
\* ------------------------------------------------------------------------
C9_CaptureIsolation ==
  /\ pc = "origin" => w = NewSink
  /\ (pc = "done" /\ originErr # "") => (ret = originErr /\ w = NewSink)

\* The origin handler set a header, a status and wrote a body, then failed.
C9_Witness ==
  /\ pc = "done"
  /\ originErr = "origin failed"
  /\ ret = "origin failed"
  /\ rc.status = 404
  /\ rc.body = ChunkArr
  /\ CapturedContentType = TextPlain
  /\ w = NewSink

\* ------------------------------------------------------------------------
\* C10 - replay order.  In every ServeHTTP execution that returns nil, the
\* calls on the real sink are: header changes, then exactly one WriteHeader
\* carrying the captured status, then the body write(s); so what was sent as
\* headers is the sink's header map as it finally stands.
\* ------------------------------------------------------------------------
C10_ReplayOrder ==
  (Served /\ ret = "") =>
    LET log == w.log
        at == { i \in 1..Len(log) : log[i].op = "WriteHeader" }
    IN /\ Cardinality(at) = 1
       /\ \A i \in at :
            /\ log[i].n = rc.status
            /\ \A j \in 1..Len(log) :
                 /\ log[j].op = "Header" => j < i
                 /\ log[j].op = "Write" => j > i
       /\ \E j \in 1..Len(log) : log[j].op = "Write"
       /\ w.sentHeader = w.header

\* A passthrough with two captured headers: two header changes, the status,
\* the body.
C10_Witness ==
  /\ Served
  /\ ret = ""
  /\ path = "passthrough"
  /\ Len(w.log) = 4
  /\ w.log[3].op = "WriteHeader"
  /\ w.log[4].op = "Write"
  /\ w.log[4].b = ChunkNull

====
